---- MODULE Spec2Model ----
(***************************************************************************)
(* Model of release.py, the platform release script.                       *)
(*                                                                         *)
(* Text is modelled as a sequence of tokens.  A token is either a single   *)
(* character (" ", ":", ".", "-", "+", a digit, the newline "\n") or an    *)
(* indivisible word ("version", "appVersion", "other", "beta", "rc1",      *)
(* "b7").  The regular expressions of the script only distinguish white    *)
(* space, digits, ".", ":", and the words version and appVersion, so       *)
(* matching on tokens is matching on the characters they spell.            *)
(***************************************************************************)
EXTENDS Integers, Sequences, FiniteSets, TLC

VARIABLES
    pc,          \* position of main(): "main", "validate", "release", "done", "aborted"
    from_step,   \* args.from_step
    version,     \* the parsed semver.Version
    components,  \* main()'s local list, the result of components_from
    i,           \* index of the component the running loop of main() is at
    stage,       \* position inside Component.validate / Component.release
    d,           \* index of the dependency / hook command the inner loop is at
    cwd,         \* os.getcwd(), a path as a sequence of directory names
    prev,        \* pushd()'s local: the directory to return to
    branch,      \* per checkout, the branch git reports as current
    chart,       \* per checkout, the contents of charts/**/Chart.yaml
    openapi,     \* per checkout, the contents of pkg/openapi/*.spec.yaml
    log,         \* every step taken so far, in order, with its outcome
    fn,          \* direct call of a function: which one ("none" in a run of main)
    arg_step,    \* argument of a direct call of components_from
    arg_file,    \* contents of the file argument of a direct call of a patcher
    ret          \* the direct call: whether it returned (done), and its result (value)

vars == <<pc, from_step, version, components, i, stage, d, cwd, prev, branch,
          chart, openapi, log, fn, arg_step, arg_file, ret>>

run_vars == <<pc, from_step, version, components, i, stage, d, cwd, prev,
              branch, chart, openapi, log>>

call_vars == <<fn, arg_step, arg_file, ret>>

-----------------------------------------------------------------------------
(* Bounds of the model. *)

\* largest major version number tried
MaxMajor == 1

\* largest number of files a glob returns
MaxMatches == 2

\* largest number of lines of a file handed to a patcher directly
MaxLines == 2

-----------------------------------------------------------------------------
(* Text helpers. *)

\* Python's None, as the value of an absent --from-step.
None == "<None>"

Digits == <<"0", "1", "2", "3", "4", "5", "6", "7", "8", "9">>

IsDigit(t) == \E k \in 1..10 : Digits[k] = t

\* Python's \s on the characters of the model.
IsSpace(t) == t \in {" ", "\t", "\n"}

\* str(n) for a non-negative integer, as digit tokens.
RECURSIVE Dec(_)
Dec(n) == IF n < 10 THEN <<Digits[n + 1]>>
                    ELSE Dec(n \div 10) \o <<Digits[(n % 10) + 1]>>

\* ''.join(lines)
RECURSIVE Join(_)
Join(lines) == IF lines = <<>> THEN <<>> ELSE Head(lines) \o Join(Tail(lines))

\* Length of what file.readline() returns on the remaining text s: up to and
\* including the first newline, or everything when there is none.
RECURSIVE ReadLineLen(_)
ReadLineLen(s) == IF s = <<>> THEN 0
                  ELSE IF Head(s) = "\n" THEN 1
                  ELSE 1 + ReadLineLen(Tail(s))

\* The lines the readline loop of a patcher sees for the text s.
RECURSIVE ReadLines(_)
ReadLines(s) == IF s = <<>> THEN <<>>
                ELSE LET n == ReadLineLen(s)
                     IN  <<SubSeq(s, 1, n)>> \o ReadLines(SubSeq(s, n + 1, Len(s)))

-----------------------------------------------------------------------------
(* Versions. *)

\* The versions tried: semver.Version values, prerelease and build as token
\* sequences, <<>> when absent.
Versions == [major : 1..MaxMajor, minor : {10}, patch : {0},
             prerelease : {<<>>, <<"rc1">>}, build : {<<>>, <<"b7">>}]

\* canonical_version, were the leading v left out.
canonical_version_Unprefixed(v) ==
    Dec(v.major) \o <<".">> \o Dec(v.minor) \o <<".">> \o Dec(v.patch)
        \o (IF v.prerelease # <<>> THEN <<"-">> \o v.prerelease ELSE <<>>)

canonical_version(v) ==
    <<"v">> \o Dec(v.major) \o <<".">> \o Dec(v.minor) \o <<".">> \o Dec(v.patch)
        \o (IF v.prerelease # <<>> THEN <<"-">> \o v.prerelease ELSE <<>>)

\* str(version) of the semver library: major.minor.patch[-prerelease][+build]
VersionStr(v) ==
    Dec(v.major) \o <<".">> \o Dec(v.minor) \o <<".">> \o Dec(v.patch)
        \o (IF v.prerelease # <<>> THEN <<"-">> \o v.prerelease ELSE <<>>)
        \o (IF v.build # <<>> THEN <<"+">> \o v.build ELSE <<>>)

-----------------------------------------------------------------------------
(* The registry. *)

Component(name, dependencies, precommit_hook) ==
    [name |-> name, dependencies |-> dependencies, precommit_hook |-> precommit_hook]

\* The commands of ui_npm_update, in order.
ui_npm_update == <<"npm run openapi:identity", "npm run openapi:region",
                   "npm run openapi:compute", "npm run openapi:kubernetes">>

\* COMPONENTS, were region listed before identity, which it depends on.
COMPONENTS_Misordered == <<
    Component("core", <<>>, <<>>),
    Component("region", <<"core", "identity">>, <<>>),
    Component("identity", <<"core">>, <<>>),
    Component("compute", <<"core", "identity", "region">>, <<>>),
    Component("kubernetes", <<"core", "identity", "region">>, <<>>),
    Component("ui", <<>>, ui_npm_update) >>

\* precommit_hook is the sequence of commands of the hook, <<>> for no hook.
COMPONENTS == <<
    Component("core", <<>>, <<>>),
    Component("identity", <<"core">>, <<>>),
    Component("region", <<"core", "identity">>, <<>>),
    Component("compute", <<"core", "identity", "region">>, <<>>),
    Component("kubernetes", <<"core", "identity", "region">>, <<>>),
    Component("ui", <<>>, ui_npm_update) >>

Names == {COMPONENTS[k].name : k \in 1..Len(COMPONENTS)}

\* IndexOf, were the index counted from one.
IndexOf_OneBased(step) ==
    IF \E k \in 1..Len(COMPONENTS) : COMPONENTS[k].name = step
    THEN CHOOSE k \in 1..Len(COMPONENTS) : COMPONENTS[k].name = step
    ELSE -1

\* next((i for i, c in enumerate(COMPONENTS) if c.name == step), -1), 0-based
IndexOf(step) ==
    IF \E k \in 1..Len(COMPONENTS) : COMPONENTS[k].name = step
    THEN (CHOOSE k \in 1..Len(COMPONENTS) :
              /\ COMPONENTS[k].name = step
              /\ \A j \in 1..(k - 1) : COMPONENTS[j].name # step) - 1
    ELSE -1

\* Python's seq[index:], index 0-based, a negative index counting from the end.
SliceFrom(seq, index) ==
    LET start == IF index < 0
                 THEN (IF Len(seq) + index < 0 THEN 0 ELSE Len(seq) + index)
                 ELSE (IF index > Len(seq) THEN Len(seq) ELSE index)
    IN  SubSeq(seq, start + 1, Len(seq))

components_from(step) ==
    IF step = None THEN COMPONENTS
    ELSE SliceFrom(COMPONENTS, IndexOf(step))

-----------------------------------------------------------------------------
(* The patchers. *)

\* re.match(r'(version|appVersion):', line)
ChartMatch(line) ==
    /\ Len(line) >= 2
    /\ line[1] \in {"version", "appVersion"}
    /\ line[2] = ":"

\* ChartLine, were the newline left out of the replacement.
ChartLine_NoNewline(line, v) ==
    IF ChartMatch(line)
    THEN <<line[1], ":", " ">> \o canonical_version(v)
    ELSE line

\* ChartLine, were only the matched "key:" replaced and the rest of the line kept.
ChartLine_SubstitutesMatch(line, v) ==
    IF ChartMatch(line)
    THEN <<line[1], ":", " ">> \o canonical_version(v) \o SubSeq(line, 3, Len(line))
    ELSE line

\* Lines 83-85: the line the chart loop appends for the line read.
ChartLine(line, v) ==
    IF ChartMatch(line)
    THEN <<line[1], ":", " ">> \o canonical_version(v) \o <<"\n">>
    ELSE line

_update_chart_contents(file, v) ==
    LET lines == ReadLines(file)
    IN  Join([k \in 1..Len(lines) |-> ChartLine(lines[k], v)])

\* Number of tokens of line from position k on that are white space (\s+).
RECURSIVE SpaceRun(_, _)
SpaceRun(line, k) ==
    IF k <= Len(line) /\ IsSpace(line[k]) THEN 1 + SpaceRun(line, k + 1) ELSE 0

\* Number of tokens of line from position k on that are digits (\d+).
RECURSIVE DigitRun(_, _)
DigitRun(line, k) ==
    IF k <= Len(line) /\ IsDigit(line[k]) THEN 1 + DigitRun(line, k + 1) ELSE 0

\* Whether line has token t at position k.
At(line, k, t) == k <= Len(line) /\ line[k] = t

\* re.match(r'(\s+version):\s+\d+(\.\d+){2}', line): a match of a prefix of
\* the line; what follows the third number is not looked at.
OpenapiMatch(line) ==
    LET s1 == SpaceRun(line, 1)
        s2 == SpaceRun(line, s1 + 3)
        n1 == DigitRun(line, s1 + 3 + s2)
        p2 == s1 + 3 + s2 + n1
        n2 == DigitRun(line, p2 + 1)
        p3 == p2 + 1 + n2
        n3 == DigitRun(line, p3 + 1)
    IN  /\ s1 >= 1
        /\ At(line, s1 + 1, "version")
        /\ At(line, s1 + 2, ":")
        /\ s2 >= 1
        /\ n1 >= 1
        /\ At(line, p2, ".")
        /\ n2 >= 1
        /\ At(line, p3, ".")
        /\ n3 >= 1

\* m.group(1): the indentation and the key.
OpenapiGroup1(line) == SubSeq(line, 1, SpaceRun(line, 1) + 1)

\* Lines 112-114: the line the OpenAPI loop appends for the line read.
OpenapiLine(line, v) ==
    IF OpenapiMatch(line)
    THEN OpenapiGroup1(line) \o <<":", " ">> \o VersionStr(v) \o <<"\n">>
    ELSE line

_update_openapi_contents(file, v) ==
    LET lines == ReadLines(file)
    IN  Join([k \in 1..Len(lines) |-> OpenapiLine(lines[k], v)])

-----------------------------------------------------------------------------
(* A run of main(): the state. *)

\* The directory the script is started in, which holds the checkouts.
Root == <<>>

\* os.chdir(directory) for a relative directory
Chdir(dir, directory) == dir \o <<directory>>

\* What --from-step may be given as on the command line.
StepArgs == Names \cup {None, "does-not-exist"}

\* The branches a checkout may be on when the script starts.
Branches == {"main", "feature/x"}

\* "version: 0.0.0\nappVersion: 0.0.0\nother: x\n"
InitialChart ==
    <<"version", ":", " ", "0", ".", "0", ".", "0", "\n",
      "appVersion", ":", " ", "0", ".", "0", ".", "0", "\n",
      "other", ":", " ", "x", "\n">>

\* "other:\n  version: 1.0.0\n"
InitialOpenapi ==
    <<"other", ":", "\n",
      " ", " ", "version", ":", " ", "1", ".", "0", ".", "0", "\n">>

\* One step of the run as the log keeps it: the component, the stage of its
\* pipeline, the operation, its argument (tokens), the number of files a glob
\* matched, and whether the step went through (FALSE: it raised).
Entry(comp, stg, op, arg, n, ok) ==
    [comp |-> comp, stage |-> stg, op |-> op, arg |-> arg, n |-> n, ok |-> ok]

\* The component the running loop of main() is at.
Cur == components[i]

\* The branch, tag and title of lines 164-166.
Bump == "bump"
Tag == canonical_version(version)
Title == <<"Version", " ">> \o Tag

\* The result of a direct call before it returned.
NoResult == [done |-> FALSE, value |-> <<>>]

\* No direct call is made in a run of main().
NoCall == fn = "none" /\ arg_step = None /\ arg_file = <<>> /\ ret = NoResult

Init ==
    /\ pc = "main"
    /\ from_step \in StepArgs
    /\ version \in Versions
    /\ components = <<>>
    /\ i = 0
    /\ stage = "none"
    /\ d = 0
    /\ cwd = Root
    /\ prev = Root
    /\ branch \in [Names -> Branches]
    /\ chart = [c \in Names |-> InitialChart]
    /\ openapi = [c \in Names |-> InitialOpenapi]
    /\ log = <<>>
    /\ NoCall

-----------------------------------------------------------------------------
(* A run of main(): control. *)

\* Raise, were the exception caught around the call and the loop of main()
\* continued with its next component.
Raise_ContinueNext ==
    /\ cwd' = prev
    /\ d' = 0
    /\ IF i < Len(components)
       THEN i' = i + 1 /\ stage' = "pushd" /\ pc' = pc
       ELSE i' = i /\ stage' = "none" /\ pc' = "done"

\* Raise, were pushd written without its try/finally.
Raise_NoRestore ==
    /\ pc' = "aborted"
    /\ UNCHANGED <<cwd, i, stage, d>>

\* An exception leaves the with-block of pushd (its finally restores the
\* directory) and, caught nowhere, ends the process.
Raise ==
    /\ pc' = "aborted"
    /\ cwd' = prev
    /\ UNCHANGED <<i, stage, d>>

\* Return, were validate() called for the first selected component only.
Return_ValidatesFirstOnly(after) ==
    /\ cwd' = prev
    /\ d' = 0
    /\ IF pc = "validate"
       THEN i' = 1 /\ stage' = "pushd" /\ pc' = "release"
       ELSE IF i < Len(components)
       THEN i' = i + 1 /\ stage' = "pushd" /\ pc' = pc
       ELSE i' = i /\ stage' = "none" /\ pc' = after

\* The with-block of pushd is left normally and the loop of main() goes on
\* to its next component, or to what follows the loop.
Return(after) ==
    /\ cwd' = prev
    /\ d' = 0
    /\ IF i < Len(components)
       THEN /\ i' = i + 1
            /\ stage' = "pushd"
            /\ pc' = pc
       ELSE /\ i' = IF after = "done" THEN i ELSE 1
            /\ stage' = IF after = "done" THEN "none" ELSE "pushd"
            /\ pc' = after

\* Control stays inside the with-block and moves to position s.
Goto(s) ==
    /\ stage' = s
    /\ d' = IF s \in {"go_get", "hook"} THEN 1 ELSE 0
    /\ UNCHANGED <<pc, i, cwd>>

\* Where release() goes after the chart, the dependencies, the OpenAPI part.
AfterOpenapi(c) == IF c.precommit_hook # <<>> THEN "hook" ELSE "checkout_b"

\* AfterDeps, were line 151 missing: the OpenAPI part runs for every version.
AfterDeps_Always(c) == "openapi"

AfterDeps(c) == IF version.prerelease = <<>> THEN "openapi" ELSE "checkout_b"

AfterChart(c) == IF c.dependencies # <<>> THEN "go_get" ELSE AfterDeps(c)

\* Command, were the command run with subprocess.call, its exit status unread.
Command_Unchecked(at, stg, op, arg, Success) ==
    /\ pc = "release"
    /\ stage = at
    /\ \E ok \in BOOLEAN :
         /\ log' = Append(log, Entry(Cur.name, stg, op, arg, 0, ok))
         /\ Success
    /\ UNCHANGED <<from_step, version, components, prev, chart, openapi>>
    /\ UNCHANGED call_vars

\* subprocess.check_call / check_output at position `at` of release(): the
\* command runs once; a non-zero exit raises, otherwise Success happens.
Command(at, stg, op, arg, Success) ==
    /\ pc = "release"
    /\ stage = at
    /\ \E ok \in BOOLEAN :
         /\ log' = Append(log, Entry(Cur.name, stg, op, arg, 0, ok))
         /\ IF ok THEN Success ELSE Raise /\ UNCHANGED branch
    /\ UNCHANGED <<from_step, version, components, prev, chart, openapi>>
    /\ UNCHANGED call_vars

\* Lines 37-38 of pushd, entered at the start of validate() or release():
\* remember the directory, change into the checkout.  A chdir that fails
\* raises before the try, with the directory unchanged.
pushd(stg, next) ==
    /\ stage = "pushd"
    /\ prev' = cwd
    /\ \E ok \in BOOLEAN :
         /\ log' = Append(log, Entry(Cur.name, stg, "chdir", <<Cur.name>>, 0, ok))
         /\ IF ok
            THEN /\ cwd' = Chdir(cwd, Cur.name)
                 /\ stage' = next
                 /\ UNCHANGED <<pc, i, d>>
            ELSE /\ pc' = "aborted"
                 /\ UNCHANGED <<cwd, i, stage, d>>
    /\ UNCHANGED <<from_step, version, components, branch, chart, openapi>>
    /\ UNCHANGED call_vars

-----------------------------------------------------------------------------
(* main() up to its loops, and Component.validate. *)

\* Lines 236-244.  argparse refuses a --from-step that is not a name of the
\* registry and exits.
Main ==
    /\ pc = "main"
    /\ IF from_step # None /\ from_step \notin Names
       THEN /\ pc' = "aborted"
            /\ UNCHANGED <<components, i, stage>>
       ELSE /\ components' = components_from(from_step)
            /\ pc' = IF components' = <<>> THEN "done" ELSE "validate"
            /\ i' = IF components' = <<>> THEN i ELSE 1
            /\ stage' = IF components' = <<>> THEN stage ELSE "pushd"
    /\ UNCHANGED <<from_step, version, d, cwd, prev, branch, chart, openapi, log>>
    /\ UNCHANGED call_vars

ValidatePushd ==
    /\ pc = "validate"
    /\ pushd("Validate", "branch")

\* BranchIsMain, were validate() to refuse only a detached checkout.
BranchIsMain_NonEmpty(b) == b # ""

\* Line 69, negated: the branch validate() accepts.
BranchIsMain(b) == b = "main"

\* Lines 68-70 and the end of the with-block.
ValidateBranch ==
    /\ pc = "validate"
    /\ stage = "branch"
    /\ \E ok \in BOOLEAN :
         LET out == IF ok THEN <<branch[Cur.name]>> ELSE <<>>
             passed == ok /\ BranchIsMain(branch[Cur.name])
         IN  /\ log' = Append(log, Entry(Cur.name, "Validate",
                                         "git branch --show-current", out, 0, passed))
             /\ IF passed THEN Return("release") ELSE Raise
    /\ UNCHANGED <<from_step, version, components, prev, branch, chart, openapi>>
    /\ UNCHANGED call_vars

-----------------------------------------------------------------------------
(* Component.release. *)

ReleasePushd ==
    /\ pc = "release"
    /\ pushd("PatchChart", "chart")

\* ChartDiscoveryFails, were release() to refuse only the lack of a chart.
ChartDiscoveryFails_OnlyNone(n) == n = 0

\* Line 139: the numbers of chart files release() refuses.
ChartDiscoveryFails(n) == n # 1

\* Line 154: the numbers of OpenAPI files release() refuses.
OpenapiDiscoveryFails(n) == n > 1

\* Lines 91-99, on the chart of checkout c.
_update_chart(c, v) == [chart EXCEPT ![c] = _update_chart_contents(@, v)]

\* Lines 120-128, on the OpenAPI document of checkout c.
_update_openapi(c, v) == [openapi EXCEPT ![c] = _update_openapi_contents(@, v)]

\* Lines 138-140.
ChartDiscovery ==
    /\ pc = "release"
    /\ stage = "chart"
    /\ \E n \in 0..MaxMatches :
         /\ log' = Append(log, Entry(Cur.name, "PatchChart", "glob charts", <<>>, n,
                                     ~ChartDiscoveryFails(n)))
         /\ IF ChartDiscoveryFails(n) THEN Raise ELSE Goto("chart_write")
    /\ UNCHANGED <<from_step, version, components, prev, branch, chart, openapi>>
    /\ UNCHANGED call_vars

\* Line 142.
PatchChart ==
    /\ pc = "release"
    /\ stage = "chart_write"
    /\ log' = Append(log, Entry(Cur.name, "PatchChart", "write chart", Tag, 0, TRUE))
    /\ chart' = _update_chart(Cur.name, version)
    /\ Goto(AfterChart(Cur))
    /\ UNCHANGED <<from_step, version, components, prev, branch, openapi>>
    /\ UNCHANGED call_vars

\* Lines 146-147, one dependency per step.
GoGet ==
    Command("go_get", "UpdateDependencies", "go get",
            <<Cur.dependencies[d], "@">> \o Tag,
            /\ IF d < Len(Cur.dependencies)
               THEN d' = d + 1 /\ UNCHANGED <<pc, i, stage, cwd>>
               ELSE Goto("go_mod_tidy")
            /\ UNCHANGED branch)

\* Line 149.
GoModTidy ==
    Command("go_mod_tidy", "UpdateDependencies", "go mod tidy", <<>>,
            Goto(AfterDeps(Cur)) /\ UNCHANGED branch)

\* Lines 153-156.
OpenapiDiscovery ==
    /\ pc = "release"
    /\ stage = "openapi"
    /\ \E n \in 0..MaxMatches :
         /\ log' = Append(log, Entry(Cur.name, "PatchOpenAPI", "glob openapi", <<>>, n,
                                     ~OpenapiDiscoveryFails(n)))
         /\ IF OpenapiDiscoveryFails(n) THEN Raise
            ELSE IF n # 0 THEN Goto("openapi_write")
            ELSE Goto(AfterOpenapi(Cur))
    /\ UNCHANGED <<from_step, version, components, prev, branch, chart, openapi>>
    /\ UNCHANGED call_vars

\* Line 157.
PatchOpenAPI ==
    /\ pc = "release"
    /\ stage = "openapi_write"
    /\ log' = Append(log, Entry(Cur.name, "PatchOpenAPI", "write openapi",
                                VersionStr(version), 0, TRUE))
    /\ openapi' = _update_openapi(Cur.name, version)
    /\ Goto("make_validate")
    /\ UNCHANGED <<from_step, version, components, prev, branch, chart>>
    /\ UNCHANGED call_vars

\* Line 158.
MakeValidate ==
    Command("make_validate", "PatchOpenAPI", "make validate", <<>>,
            Goto(AfterOpenapi(Cur)) /\ UNCHANGED branch)

\* Line 162, one command of the hook per step (lines 189-192).
PrecommitHook ==
    Command("hook", "PrecommitHook", Cur.precommit_hook[d], <<>>,
            /\ IF d < Len(Cur.precommit_hook)
               THEN d' = d + 1 /\ UNCHANGED <<pc, i, stage, cwd>>
               ELSE Goto("checkout_b")
            /\ UNCHANGED branch)

\* Line 169.
GitCheckoutB ==
    Command("checkout_b", "CommitAndPublish", "git checkout -b", <<Bump>>,
            Goto("add") /\ branch' = [branch EXCEPT ![Cur.name] = Bump])

\* Line 170.
GitAdd ==
    Command("add", "CommitAndPublish", "git add", <<".">>,
            Goto("commit") /\ UNCHANGED branch)

\* Line 171.
GitCommit ==
    Command("commit", "CommitAndPublish", "git commit", Title,
            Goto("push") /\ UNCHANGED branch)

\* Line 172.
GitPush ==
    Command("push", "CommitAndPublish", "git push -f", <<Bump>>,
            Goto("pr") /\ UNCHANGED branch)

\* Line 173.
GhPrCreate ==
    Command("pr", "CommitAndPublish", "gh pr create", Title,
            Goto("input") /\ UNCHANGED branch)

\* AwaitApproval, were line 176 missing: the first command of the release
\* part follows the opening of the review request.
AwaitApproval_Skipped ==
    Command("input", "TagAndPush", "git checkout", <<"main">>,
            Goto("pull") /\ branch' = [branch EXCEPT ![Cur.name] = "main"])

\* Line 176: input() returns when the operator hits ENTER, and raises when
\* the operator interrupts the script or closes its input.
AwaitApproval ==
    Command("input", "AwaitApproval", "input", <<>>,
            Goto("checkout_main") /\ UNCHANGED branch)

\* GitCheckoutMain, were the new branch checked out again instead of main.
GitCheckoutMain_StaysOnBranch ==
    Command("checkout_main", "TagAndPush", "git checkout", <<Bump>>,
            Goto("pull") /\ UNCHANGED branch)

\* Line 179.
GitCheckoutMain ==
    Command("checkout_main", "TagAndPush", "git checkout", <<"main">>,
            Goto("pull") /\ branch' = [branch EXCEPT ![Cur.name] = "main"])

\* GitPull, were line 180 missing: the tag is created right after the
\* switch to main.
GitPull_Missing ==
    Command("pull", "TagAndPush", "git tag", Tag,
            Goto("push_tag") /\ UNCHANGED branch)

\* Line 180.
GitPull ==
    Command("pull", "TagAndPush", "git pull", <<>>,
            Goto("tag") /\ UNCHANGED branch)

\* Line 181.
GitTag ==
    Command("tag", "TagAndPush", "git tag", Tag,
            Goto("push_tag") /\ UNCHANGED branch)

\* Line 182.
GitPushTag ==
    Command("push_tag", "TagAndPush", "git push", Tag,
            Goto("branch_d") /\ UNCHANGED branch)

\* Line 183 and the end of the with-block.
GitBranchD ==
    Command("branch_d", "TagAndPush", "git branch -D", <<Bump>>,
            Return("done") /\ UNCHANGED branch)

Next ==
    \/ Main
    \/ ValidatePushd
    \/ ValidateBranch
    \/ ReleasePushd
    \/ ChartDiscovery
    \/ PatchChart
    \/ GoGet
    \/ GoModTidy
    \/ OpenapiDiscovery
    \/ PatchOpenAPI
    \/ MakeValidate
    \/ PrecommitHook
    \/ GitCheckoutB
    \/ GitAdd
    \/ GitCommit
    \/ GitPush
    \/ GhPrCreate
    \/ AwaitApproval
    \/ GitCheckoutMain
    \/ GitPull
    \/ GitTag
    \/ GitPushTag
    \/ GitBranchD

Spec == Init /\ [][Next]_vars

-----------------------------------------------------------------------------
(* Direct calls of components_from and of the patchers, as a test makes    *)
(* them on the imported module: main() is not run.                         *)

\* The step names tried in a direct call of components_from.
StepCallArgs == StepArgs \cup {"", "Core", "ui "}

Indents == {<<>>, <<" ", " ">>}

Keys == {"version", "appVersion", "other"}

Values == { <<"1", ".", "0", ".", "0">>,
            <<"1", ".", "0", ".", "0", "-", "beta">>,
            <<"1", ".", "0">> }

\* The lines files are made of, without their newline: every indentation,
\* key and value above as "<indent><key>: <value>", a blank line, a tab
\* indented key, a key with no space after the colon, a key with no colon.
SampleLines ==
    { ind \o <<key, ":", " ">> \o val : ind \in Indents, key \in Keys, val \in Values }
    \cup { <<>>,
           <<"\t", "version", ":", "\t", "1", ".", "0", ".", "0">>,
           <<" ", "version", ":", "1", ".", "0", ".", "0">>,
           <<"version", " ", "1", ".", "0", ".", "0">> }

\* The file made of the lines ls, the last one ending in a newline or not.
FileOf(ls, terminated) ==
    Join([k \in 1..Len(ls) |->
            ls[k] \o (IF k < Len(ls) \/ terminated THEN <<"\n">> ELSE <<>>)])

\* The file contents tried in a direct call of a patcher.
Files ==
    UNION { { FileOf(ls, t) : ls \in [1..n -> SampleLines], t \in BOOLEAN } :
            n \in 0..MaxLines }

InitCall ==
    /\ pc = "imported"
    /\ from_step = None
    /\ components = <<>>
    /\ i = 0
    /\ stage = "none"
    /\ d = 0
    /\ cwd = Root
    /\ prev = Root
    /\ branch = [c \in Names |-> "main"]
    /\ chart = [c \in Names |-> InitialChart]
    /\ openapi = [c \in Names |-> InitialOpenapi]
    /\ log = <<>>
    /\ ret = NoResult
    /\ \/ /\ fn = "components_from"
          /\ arg_step \in StepCallArgs
          /\ arg_file = <<>>
          /\ version = CHOOSE v \in Versions : TRUE
       \/ /\ fn \in {"_update_chart_contents", "_update_openapi_contents"}
          /\ arg_step = None
          /\ arg_file \in Files
          /\ version \in Versions

CallComponentsFrom ==
    /\ fn = "components_from"
    /\ ~ret.done
    /\ ret' = [done |-> TRUE, value |-> components_from(arg_step)]
    /\ UNCHANGED <<fn, arg_step, arg_file>>
    /\ UNCHANGED run_vars

CallUpdateChartContents ==
    /\ fn = "_update_chart_contents"
    /\ ~ret.done
    /\ ret' = [done |-> TRUE, value |-> _update_chart_contents(arg_file, version)]
    /\ UNCHANGED <<fn, arg_step, arg_file>>
    /\ UNCHANGED run_vars

CallUpdateOpenapiContents ==
    /\ fn = "_update_openapi_contents"
    /\ ~ret.done
    /\ ret' = [done |-> TRUE, value |-> _update_openapi_contents(arg_file, version)]
    /\ UNCHANGED <<fn, arg_step, arg_file>>
    /\ UNCHANGED run_vars

\* _update_chart_contents called again, on the text it returned.
CallUpdateChartContentsAgain ==
    /\ fn = "_update_chart_contents"
    /\ ret.done
    /\ fn' = "_update_chart_contents twice"
    /\ arg_file' = ret.value
    /\ ret' = [done |-> TRUE, value |-> _update_chart_contents(ret.value, version)]
    /\ UNCHANGED arg_step
    /\ UNCHANGED run_vars

\* _update_openapi_contents called again, on the text it returned.
CallUpdateOpenapiContentsAgain ==
    /\ fn = "_update_openapi_contents"
    /\ ret.done
    /\ fn' = "_update_openapi_contents twice"
    /\ arg_file' = ret.value
    /\ ret' = [done |-> TRUE, value |-> _update_openapi_contents(ret.value, version)]
    /\ UNCHANGED arg_step
    /\ UNCHANGED run_vars

NextCall ==
    \/ CallComponentsFrom
    \/ CallUpdateChartContents
    \/ CallUpdateOpenapiContents
    \/ CallUpdateChartContentsAgain
    \/ CallUpdateOpenapiContentsAgain

SpecCall == InitCall /\ [][NextCall]_vars

-----------------------------------------------------------------------------
(* Vocabulary of the properties.                                           *)
(*                                                                         *)
(* Every step of a run appends one entry to the log and the log is never   *)
(* cut, so each prefix of the log of a run is the log of a reachable       *)
(* state: a property of the last entry and the entries before it that      *)
(* holds in every reachable state holds of every step of every run.        *)

\* The place of a registered name in registry order.
Position(name) == CHOOSE k \in 1..Len(COMPONENTS) : COMPONENTS[k].name = name

\* The positions of the log, and those before the last one.
Steps == 1..Len(log)

Earlier == 1..(Len(log) - 1)

\* The step taken last.
Last == log[Len(log)]

\* The step that completes the pipeline of a component: the last command of
\* TagAndPush went through.
Completes(e, name) == e.comp = name /\ e.op = "git branch -D" /\ e.ok

\* A step of release(), as opposed to one of validate().
IsReleaseStep(e) == e.stage # "Validate"

\* The steps that read and change nothing in a checkout or outside it.
ReadOnlyOps == {"chdir", "git branch --show-current", "glob charts", "glob openapi", "input"}

\* Whether the token sequence q starts the token sequence s.
StartsWith(s, q) == Len(s) >= Len(q) /\ SubSeq(s, 1, Len(q)) = q

\* The component selected just before name, when name is not the first one.
HasPredecessor(name) == Position(name) > Position(components[1].name)

Predecessor(name) == COMPONENTS[Position(name) - 1].name

-----------------------------------------------------------------------------
(* C1 *)

\* C1, as stated: no step of a component, those of Validate included, is
\* taken before the pipeline of the component selected before it completed.
C1_NoStageBeforePredecessorCompleted ==
    log # <<>> /\ HasPredecessor(Last.comp) =>
        \E k \in Earlier : Completes(log[k], Predecessor(Last.comp))

\* C1, amended: the steps of Validate all come before the steps of release;
\* within validation and within release the components come in registry
\* order; and no step of release of a component is taken before the
\* pipeline of the component selected before it completed.
C1_ReleaseInRegistryOrder ==
    log # <<>> =>
        /\ IsReleaseStep(Last) /\ HasPredecessor(Last.comp) =>
               \E k \in Earlier : Completes(log[k], Predecessor(Last.comp))
        /\ \A k \in Earlier :
               IsReleaseStep(log[k]) = IsReleaseStep(Last) =>
                   Position(log[k].comp) <= Position(Last.comp)
        /\ \A k \in Earlier : IsReleaseStep(log[k]) => IsReleaseStep(Last)

\* The third selected component is in its release, two pipelines completed.
C1_Witness ==
    /\ pc = "release"
    /\ i = 3
    /\ stage = "go_mod_tidy"
    /\ Len(components) >= 4
    /\ Last.op = "go get"

-----------------------------------------------------------------------------
(* C2 *)

\* C2: a tag is created or pushed only after the review request of the
\* component was opened and the operator's signal was then received; while
\* the run waits for the signal the step taken last is the opening of the
\* review request; and the step taken after the opening of the review
\* request is the arrival of the signal or the interruption of the wait.
C2_TagOnlyAfterApproval ==
    /\ log # <<>> /\ Last.op \in {"git tag", "git push"} =>
           \E a, b \in Earlier :
               /\ a < b
               /\ log[a].comp = Last.comp
               /\ log[a].op = "gh pr create"
               /\ log[a].ok
               /\ log[b].comp = Last.comp
               /\ log[b].op = "input"
               /\ log[b].ok
    /\ pc = "release" /\ stage = "input" =>
           Last.comp = Cur.name /\ Last.op = "gh pr create" /\ Last.ok
    /\ Len(log) >= 2 /\ log[Len(log) - 1].op = "gh pr create" =>
           /\ Last.op = "input"
           /\ Last.comp = log[Len(log) - 1].comp
           /\ IF Last.ok THEN pc = "release" /\ stage = "checkout_main"
                         ELSE pc = "aborted"

\* A tag was pushed for the second selected component.
C2_Witness ==
    /\ pc = "release"
    /\ i = 2
    /\ stage = "branch_d"
    /\ Last.op = "git push"
    /\ Last.ok

-----------------------------------------------------------------------------
(* C3 *)

\* C3: a step that failed is the last step of the run, and the run is over:
\* nothing is executed after a failure, and the failed step is not retried.
C3_FailureIsFinal ==
    \A j \in Steps : ~log[j].ok => j = Len(log) /\ pc = "aborted"

\* A dependency pin of the second of six components failed.
C3_Witness ==
    /\ pc = "aborted"
    /\ Len(components) = 6
    /\ i = 2
    /\ log # <<>>
    /\ Last.op = "go get"
    /\ ~Last.ok

-----------------------------------------------------------------------------
(* C4 *)

\* C4: when the chart glob of a component matches a number of files other
\* than one, that step fails and is the last of the run, the chart of the
\* component is as it was, the component took no step that changes
\* something, and no later component took a step of its release.
C4_DiscoveryAbortsBeforeMutation ==
    /\ \A j \in Earlier : log[j].op = "glob charts" => log[j].n = 1
    /\ log # <<>> /\ Last.op = "glob charts" /\ Last.n # 1 =>
           /\ ~Last.ok
           /\ pc = "aborted"
           /\ chart[Last.comp] = InitialChart
           /\ \A k \in Steps :
                  log[k].comp = Last.comp => log[k].op \in ReadOnlyOps
           /\ \A k \in Steps :
                  Position(log[k].comp) > Position(Last.comp) =>
                      ~IsReleaseStep(log[k])

\* The chart glob of the second of six components matched two files.
C4_Witness ==
    /\ pc = "aborted"
    /\ Len(components) = 6
    /\ log # <<>>
    /\ Last.op = "glob charts"
    /\ Last.n = 2
    /\ Last.comp = "identity"

-----------------------------------------------------------------------------
(* C5 *)

\* C5: outside validate() and release() the working directory is the one
\* the script was started in; inside, once pushd changed it, it is the
\* checkout of the component at hand, and the directory to return to is
\* the one the script was started in.
C5_WorkingDirectoryRestored ==
    /\ pc \in {"main", "done", "aborted"} => cwd = Root
    /\ pc \in {"validate", "release"} =>
           IF stage = "pushd"
           THEN cwd = Root
           ELSE cwd = <<Cur.name>> /\ prev = Root

\* The wait for approval was interrupted, after the directory was changed.
C5_Witness ==
    /\ pc = "aborted"
    /\ stage = "input"
    /\ log # <<>>
    /\ Last.op = "input"
    /\ ~Last.ok
    /\ \E j \in Earlier :
           /\ log[j].comp = Last.comp
           /\ log[j].op = "chdir"
           /\ log[j].ok
           /\ IsReleaseStep(log[j])
    /\ cwd = Root

-----------------------------------------------------------------------------
(* C8 *)

\* C8: a validation that is told a branch other than main fails, and a
\* component takes a step of its release only after its validation went
\* through earlier in the run.
C8_ValidateGuardsRelease ==
    /\ \A j \in Steps :
           log[j].op = "git branch --show-current" /\ log[j].arg # <<"main">> =>
               ~log[j].ok
    /\ log # <<>> /\ IsReleaseStep(Last) =>
           \E k \in Earlier :
               /\ log[k].comp = Last.comp
               /\ log[k].op = "git branch --show-current"
               /\ log[k].arg = <<"main">>
               /\ log[k].ok

\* The validation of the second component was told feature/x and failed.
C8_Witness ==
    /\ pc = "aborted"
    /\ i = 2
    /\ log # <<>>
    /\ Last.op = "git branch --show-current"
    /\ Last.arg = <<"feature/x">>
    /\ ~Last.ok

-----------------------------------------------------------------------------
(* C6 *)

\* C6: components_from of None is the registry; of a registered name it is
\* the registry from that name on, in registry order; of region it is
\* region, compute, kubernetes, ui.
C6_ComponentsFromSuffix ==
    fn = "components_from" /\ ret.done =>
        /\ arg_step = None => ret.value = COMPONENTS
        /\ arg_step \in Names =>
               /\ Len(ret.value) = Len(COMPONENTS) - Position(arg_step) + 1
               /\ \A k \in 1..Len(ret.value) :
                      ret.value[k] = COMPONENTS[Position(arg_step) + k - 1]
        /\ arg_step = "region" =>
               [k \in 1..Len(ret.value) |-> ret.value[k].name]
                   = <<"region", "compute", "kubernetes", "ui">>

\* components_from("region") returned four components.
C6_Witness ==
    /\ fn = "components_from"
    /\ ret.done
    /\ arg_step = "region"
    /\ Len(ret.value) = 4

-----------------------------------------------------------------------------
(* C7 *)

\* C7: components_from of a name that no component has never returns a
\* list of one component.
C7_UnknownStepNotSingleSlice ==
    fn = "components_from" /\ ret.done /\ arg_step # None /\ arg_step \notin Names =>
        Len(ret.value) # 1

-----------------------------------------------------------------------------
(* C9 *)

\* C9: the text _update_chart_contents returns has as many lines as the
\* file; a line of the file that starts with version: or appVersion: is in
\* it as the key, ": ", the canonical tag and a newline; every other line
\* is in it as it was.
C9_ChartLinesRewritten ==
    fn = "_update_chart_contents" /\ ret.done =>
        LET in == ReadLines(arg_file)
            out == ReadLines(ret.value)
        IN  /\ Len(out) = Len(in)
            /\ \A k \in 1..Len(in) :
                   IF \/ StartsWith(in[k], <<"version", ":">>)
                      \/ StartsWith(in[k], <<"appVersion", ":">>)
                   THEN out[k] = <<in[k][1], ":", " ">>
                                     \o canonical_version(version) \o <<"\n">>
                   ELSE out[k] = in[k]

\* A file of an appVersion line and of an indented version line that ends
\* the file without a newline went through the patcher.
C9_Witness ==
    /\ fn = "_update_chart_contents"
    /\ ret.done
    /\ arg_file = <<"appVersion", ":", " ", "1", ".", "0", "\n",
                    " ", " ", "version", ":", " ", "1", ".", "0", ".", "0">>
    /\ ret.value # arg_file

-----------------------------------------------------------------------------
(* C10 *)

\* A line without the newline that ends it.
Body(line) ==
    IF line # <<>> /\ line[Len(line)] = "\n" THEN SubSeq(line, 1, Len(line) - 1)
    ELSE line

\* Whether the tokens of s from position k on are exactly one number of
\* three components, digits "." digits "." digits.
IsBareVersion(s, k) ==
    LET n1 == DigitRun(s, k)
        n2 == DigitRun(s, k + n1 + 1)
        n3 == DigitRun(s, k + n1 + n2 + 2)
    IN  /\ n1 >= 1 /\ n2 >= 1 /\ n3 >= 1
        /\ At(s, k + n1, ".")
        /\ At(s, k + n1 + n2 + 1, ".")
        /\ k + n1 + n2 + n3 + 1 = Len(s)

\* An indented version: key whose value is a bare three-component version.
IsBareVersionLine(line) ==
    LET b == Body(line)
        s1 == SpaceRun(b, 1)
        s2 == SpaceRun(b, s1 + 3)
    IN  /\ s1 >= 1
        /\ At(b, s1 + 1, "version")
        /\ At(b, s1 + 2, ":")
        /\ s2 >= 1
        /\ IsBareVersion(b, s1 + 3 + s2)

\* C10: the text _update_openapi_contents returns has as many lines as the
\* file; a line that holds an indented version: key with a bare
\* three-component version is in it with its indentation and key as they
\* were; every other line, one whose version carries a suffix included, is
\* in it as it was.
C10_OnlyBareVersionsRewritten ==
    fn = "_update_openapi_contents" /\ ret.done =>
        LET in == ReadLines(arg_file)
            out == ReadLines(ret.value)
        IN  /\ Len(out) = Len(in)
            /\ \A k \in 1..Len(in) :
                   IF IsBareVersionLine(in[k])
                   THEN StartsWith(out[k],
                                   SubSeq(in[k], 1, SpaceRun(in[k], 1) + 1) \o <<":">>)
                   ELSE out[k] = in[k]

-----------------------------------------------------------------------------
(* C11 *)

\* The canonical tag of a version without its leading v.
UnprefixedTag(v) == Tail(canonical_version(v))

\* C11: a line _update_openapi_contents rewrites is in its result as the
\* indentation and key it had, ": ", the major, minor and patch numbers of
\* the version with "-" and the prerelease when there is one, that is the
\* canonical tag without its v, and a newline.
C11_OpenapiValueIsUnprefixedTag ==
    fn = "_update_openapi_contents" /\ ret.done =>
        LET in == ReadLines(arg_file)
            out == ReadLines(ret.value)
        IN  /\ Len(out) = Len(in)
            /\ \A k \in 1..Len(in) :
                   out[k] # in[k] =>
                       out[k] = SubSeq(in[k], 1, SpaceRun(in[k], 1) + 1)
                                    \o <<":", " ">> \o UnprefixedTag(version) \o <<"\n">>

-----------------------------------------------------------------------------
(* C12 *)

\* The hook the registry declares for a component, <<>> when it has none.
DeclaredHook(name) == COMPONENTS[Position(name)].precommit_hook

\* C12: with a prerelease version no step of PatchOpenAPI (discovery,
\* rewriting, make validate) or of PrecommitHook is taken; a step of
\* PrecommitHook is taken only for a component that declares a hook; with
\* a release version a component that declares a hook starts its commit
\* right after the last command of its hook; and make validate is run only
\* right after the OpenAPI document of the component was rewritten.
C12_PrereleaseSkipsOpenapiAndHook ==
    log # <<>> =>
        /\ version.prerelease # <<>> =>
               Last.stage \notin {"PatchOpenAPI", "PrecommitHook"}
        /\ Last.stage = "PrecommitHook" => DeclaredHook(Last.comp) # <<>>
        /\ /\ Last.op = "git checkout -b"
           /\ version.prerelease = <<>>
           /\ DeclaredHook(Last.comp) # <<>>
           => /\ log[Len(log) - 1].comp = Last.comp
              /\ log[Len(log) - 1].op = DeclaredHook(Last.comp)[Len(DeclaredHook(Last.comp))]
              /\ log[Len(log) - 1].ok
        /\ Last.op = "make validate" =>
               /\ log[Len(log) - 1].comp = Last.comp
               /\ log[Len(log) - 1].op = "write openapi"

\* With a prerelease version, the component that declares a hook started
\* its commit.
C12_Witness ==
    /\ version.prerelease # <<>>
    /\ log # <<>>
    /\ Last.comp = "ui"
    /\ Last.op = "git checkout -b"
    /\ Last.ok

-----------------------------------------------------------------------------
(* C13 *)

\* The dependency and the reference of a dependency pin, "go get <dep>@<ref>".
PinnedDependency(e) == e.arg[1]

PinnedReference(e) == SubSeq(e.arg, 3, Len(e.arg))

\* Whether the tag ref of the component name was created and pushed and the
\* pipeline of the component completed, before the last step.
ReleasedEarlier(name, ref) ==
    /\ \E k \in Earlier :
           log[k].comp = name /\ log[k].op = "git push" /\ log[k].arg = ref /\ log[k].ok
    /\ \E k \in Earlier : Completes(log[k], name)

\* The names of the components the run selected.
Selected == {components[k].name : k \in 1..Len(components)}

\* C13, as stated: a dependency pinned is a component ordered earlier in
\* the registry whose tag of that reference was pushed, and whose pipeline
\* completed, earlier in the run.
C13_PinnedDependencyJustReleased ==
    log # <<>> /\ Last.op = "go get" =>
        /\ PinnedDependency(Last) \in Names
        /\ Position(PinnedDependency(Last)) < Position(Last.comp)
        /\ ReleasedEarlier(PinnedDependency(Last), PinnedReference(Last))

\* C13, amended: a dependency pinned is a component ordered earlier in the
\* registry; when the run selected it, its tag of that reference was
\* pushed, and its pipeline completed, earlier in the run.
C13_PinnedDependencyReleasedIfSelected ==
    log # <<>> /\ Last.op = "go get" =>
        /\ PinnedDependency(Last) \in Names
        /\ Position(PinnedDependency(Last)) < Position(Last.comp)
        /\ PinnedDependency(Last) \in Selected =>
               ReleasedEarlier(PinnedDependency(Last), PinnedReference(Last))

\* In a run of the whole registry, region pinned identity.
C13_Witness ==
    /\ from_step = None
    /\ log # <<>>
    /\ Last.comp = "region"
    /\ Last.op = "go get"
    /\ PinnedDependency(Last) = "identity"
    /\ Last.ok

-----------------------------------------------------------------------------
(* C14 *)

\* "v{major}.{minor}.{patch}", with "-{prerelease}" when a prerelease is set.
ExpectedTag ==
    <<"v">> \o Dec(version.major) \o <<".">> \o Dec(version.minor)
        \o <<".">> \o Dec(version.patch)
        \o (IF version.prerelease = <<>> THEN <<>> ELSE <<"-">> \o version.prerelease)

\* Whether every version: and appVersion: field of the text carries ref.
FieldsCarry(text, ref) ==
    LET lines == ReadLines(text)
    IN  \A k \in 1..Len(lines) :
            \/ StartsWith(lines[k], <<"version", ":">>)
            \/ StartsWith(lines[k], <<"appVersion", ":">>)
            => Body(lines[k]) = <<lines[k][1], ":", " ">> \o ref

\* C14: the chart fields written, the reference of every dependency pin,
\* the title of every commit and review request ("Version <tag>") and
\* every tag created and pushed carry the one canonical tag of the run.
C14_OneCanonicalTag ==
    log # <<>> =>
        /\ Last.op = "write chart" =>
               /\ FieldsCarry(chart[Last.comp], ExpectedTag)
               /\ chart[Last.comp] # InitialChart
        /\ Last.op = "go get" => SubSeq(Last.arg, 3, Len(Last.arg)) = ExpectedTag
        /\ Last.op \in {"git commit", "gh pr create"} =>
               Last.arg = <<"Version", " ">> \o ExpectedTag
        /\ Last.op \in {"git tag", "git push"} => Last.arg = ExpectedTag

\* With a prerelease version, a component with pinned dependencies and a
\* rewritten chart pushed its tag.
C14_Witness ==
    /\ version.prerelease # <<>>
    /\ log # <<>>
    /\ Last.comp = "identity"
    /\ Last.op = "git push"
    /\ Last.ok
    /\ chart["identity"] # InitialChart

-----------------------------------------------------------------------------
(* C15 *)

\* C15: a patcher called on the text it returned, with the same version,
\* returns that text.
C15_PatchersIdempotent ==
    fn \in {"_update_chart_contents twice", "_update_openapi_contents twice"} =>
        ret.value = arg_file

\* _update_openapi_contents was called again on a text in which it had
\* written a version with a prerelease and a build part.
C15_Witness ==
    /\ fn = "_update_openapi_contents twice"
    /\ arg_file = <<" ", " ", "version", ":", " ",
                    "1", ".", "1", "0", ".", "0", "-", "rc1", "+", "b7", "\n">>

-----------------------------------------------------------------------------
(* C16 *)

\* After a run aborted in release() of a component, the operator starts the
\* script again with --from-step naming that component, in the directory of
\* the first run.  The checkouts are as the aborted run left them.  The log
\* of the new run starts with an entry that marks it as a resumption; one
\* resumption is followed.
Rerun ==
    /\ pc = "aborted"
    /\ log # <<>>
    /\ log[1].op # "rerun"
    /\ log[Len(log)].stage # "Validate"
    /\ pc' = "main"
    /\ from_step' = Cur.name
    /\ components' = <<>>
    /\ i' = 0
    /\ stage' = "none"
    /\ d' = 0
    /\ cwd' = Root
    /\ prev' = Root
    /\ log' = <<Entry(Cur.name, "Resume", "rerun", <<>>, 0, TRUE)>>
    /\ UNCHANGED <<version, branch, chart, openapi>>
    /\ UNCHANGED call_vars

NextResume ==
    \/ Next
    \/ Rerun

SpecResume == Init /\ [][NextResume]_vars

\* C16: in a run started again from the component whose release aborted,
\* the validation of that component goes through whenever git reports its
\* branch.
C16_ResumedRunPassesValidate ==
    /\ log # <<>>
    /\ log[1].op = "rerun"
    /\ Last.op = "git branch --show-current"
    /\ Last.comp = from_step
    /\ Last.arg # <<>>
    => Last.ok

-----------------------------------------------------------------------------
(* C17 *)

\* The stages of the pipeline of a component, in order.
StageOrder == <<"Validate", "PatchChart", "UpdateDependencies", "PatchOpenAPI",
                "PrecommitHook", "CommitAndPublish", "AwaitApproval", "TagAndPush">>

StageRank(s) == CHOOSE k \in 1..Len(StageOrder) : StageOrder[k] = s

\* The commands of CommitAndPublish, the wait, the commands of TagAndPush.
CommandOrder == <<"git checkout -b", "git add", "git commit", "git push -f",
                  "gh pr create", "input",
                  "git checkout", "git pull", "git tag", "git push", "git branch -D">>

\* C17: a step of a component is of the stage of the steps the component
\* took before or of a later stage (so the stages come in order, each in
\* one piece, and a stage passed over is not made up for); a command of
\* CommitAndPublish or TagAndPush, and the wait between them, directly
\* follows the command before it in create branch, stage, commit, push,
\* open review request, wait, switch to main, pull, tag, push tag, delete
\* branch, which went through; and the tag is created with the checkout
\* on main.
C17_StagesAndCommandsInOrder ==
    log # <<>> =>
        /\ \A k \in Earlier :
               log[k].comp = Last.comp =>
                   StageRank(log[k].stage) <= StageRank(Last.stage)
        /\ Last.stage = "CommitAndPublish" <=>
               \E n \in 1..5 : Last.op = CommandOrder[n]
        /\ Last.stage = "TagAndPush" <=>
               \E n \in 7..11 : Last.op = CommandOrder[n]
        /\ \A n \in 2..Len(CommandOrder) :
               Last.op = CommandOrder[n] =>
                   /\ log[Len(log) - 1].comp = Last.comp
                   /\ log[Len(log) - 1].op = CommandOrder[n - 1]
                   /\ log[Len(log) - 1].ok
        /\ Last.op = "git tag" => branch[Last.comp] = "main"

\* The component with a hook created its tag, after its OpenAPI document
\* was rewritten and its hook ran.
C17_Witness ==
    /\ log # <<>>
    /\ Last.comp = "ui"
    /\ Last.op = "git tag"
    /\ Last.ok
    /\ \E k \in Earlier : log[k].comp = "ui" /\ log[k].stage = "PrecommitHook"
    /\ \E k \in Earlier : log[k].comp = "ui" /\ log[k].op = "write openapi"

-----------------------------------------------------------------------------
(* C18 *)

\* Whether the validation of the component name went through, told main,
\* before the last step.
ValidatedEarlier(name) ==
    \E k \in Earlier :
        /\ log[k].comp = name
        /\ log[k].op = "git branch --show-current"
        /\ log[k].arg = <<"main">>
        /\ log[k].ok

\* C18: while the run has taken no step of a release, every checkout is on
\* the branch it was on when the run started and git reports that branch
\* to validate(), no chart or OpenAPI document is rewritten, and a
\* validation that fails ends the run there; the first step of a release
\* is taken only after the validation of every selected component went
\* through, each told main.
C18_ValidationAllOrNothing ==
    /\ (\A k \in Steps : ~IsReleaseStep(log[k])) =>
           /\ \A c \in Names : branch[c] \in Branches
           /\ chart = [c \in Names |-> InitialChart]
           /\ openapi = [c \in Names |-> InitialOpenapi]
           /\ \A k \in Steps :
                  log[k].op = "git branch --show-current" /\ log[k].arg # <<>> =>
                      /\ log[k].arg = <<branch[log[k].comp]>>
                      /\ log[k].ok <=> branch[log[k].comp] = "main"
           /\ \A k \in Steps : ~log[k].ok => pc = "aborted" /\ k = Len(log)
    /\ log # <<>> /\ IsReleaseStep(Last) =>
           \A k \in 1..Len(components) : ValidatedEarlier(components[k].name)

\* The third component of the whole registry was not on main: the run
\* ended in its validation, after two validations went through.
C18_Witness ==
    /\ pc = "aborted"
    /\ from_step = None
    /\ i = 3
    /\ branch["region"] = "feature/x"
    /\ log # <<>>
    /\ Last.op = "git branch --show-current"
    /\ Last.arg = <<"feature/x">>
    /\ \A k \in Steps : ~IsReleaseStep(log[k])

-----------------------------------------------------------------------------
(* C19 *)

\* The run is over.
Terminated == pc \in {"done", "aborted"}

\* Every step of the sequential script that can be taken is taken: the
\* commands return, and the operator answers the wait for approval (by
\* ENTER or by interrupting). Some action of Next is enabled exactly in the
\* states of a run that is not over, so this is weak fairness of Next,
\* WF_vars(Next), with ENABLED <<Next>>_vars written as ~Terminated.
Fairness == []<>Terminated \/ []<><<Next>>_vars

SpecLive == Init /\ [][Next]_vars /\ Fairness

IsTagCreated(e) == e.op = "git tag" /\ e.ok

IsTagPushed(e) == e.op = "git push" /\ e.ok

IsBranchDeleted(e) == e.op = "git branch -D" /\ e.ok

\* The components of the entries of a sequence of log entries, in order.
ComponentsOf(entries) == [k \in 1..Len(entries) |-> entries[k].comp]

\* The names of the selected components, in the order of the run.
SelectedNames == [k \in 1..Len(components) |-> components[k].name]

\* The tag was created once, pushed once and the new branch deleted once
\* for each selected component, in the order of the selection, and every
\* selected checkout is on main.
AllReleased ==
    /\ ComponentsOf(SelectSeq(log, IsTagCreated)) = SelectedNames
    /\ ComponentsOf(SelectSeq(log, IsTagPushed)) = SelectedNames
    /\ ComponentsOf(SelectSeq(log, IsBranchDeleted)) = SelectedNames
    /\ \A k \in 1..Len(components) : branch[components[k].name] = "main"

\* No external command failed, no discovery found a wrong number of files
\* and no wait for approval was interrupted: the only steps that may have
\* failed are validations that git told a branch.
NoCommandFailed ==
    \A k \in Steps :
        ~log[k].ok => log[k].op = "git branch --show-current" /\ log[k].arg # <<>>

\* C19, as stated, as the result of a run that is over: a run over selected
\* components in which no command failed, no discovery found a wrong number
\* of files and no wait was interrupted ended with everything released.
C19_RunWithoutCommandFailureReleasesAll ==
    Terminated /\ components # <<>> /\ NoCommandFailed =>
        pc = "done" /\ AllReleased

\* C19, amended: every run ends; and a run over selected components in
\* which no step failed, the validations included, ended with everything
\* released.
C19_RunWithoutFailureReleasesAll ==
    /\ <>Terminated
    /\ [](Terminated /\ components # <<>> /\ (\A k \in Steps : log[k].ok) =>
              pc = "done" /\ AllReleased)

\* A run over the whole registry ended with nothing failed.
C19_Witness ==
    /\ pc = "done"
    /\ Len(components) = 6
    /\ \A k \in Steps : log[k].ok
    /\ version.prerelease = <<>>

====
